---- MODULE Spec2Model ----
\* Model of pkg/cache/clusterqueue.go: the in-memory ClusterQueue of the
\* admission cache, its usage ledger, its flavor reconciliation and its
\* LocalQueue (tenant-queue) views.
EXTENDS Integers, Sequences, FiniteSets, TLC

VARIABLES
    ResourceGroups,     \* c.ResourceGroups: sequence of ResourceGroup
    RGByResource,       \* c.RGByResource: resource name -> index of its group
    Usage,              \* c.Usage: flavor -> resource -> quantity
    Workloads,          \* c.Workloads: workload key -> workload.Info
    WorkloadsNotReady,  \* c.WorkloadsNotReady: set of workload keys
    NamespaceSelector,  \* c.NamespaceSelector
    Preemption,         \* c.Preemption
    Status,             \* c.Status
    localQueues,        \* c.localQueues: queue key -> queue
    podsReadyTracking,  \* c.podsReadyTracking
    Cohort,             \* c.Cohort: <<>> is nil, <<cohort>> points to the cohort
    lastCall,           \* history: the last operation called, its result and arguments
    pairing             \* history: the ledger before a run of admits/removes of one identity

cqVars == <<ResourceGroups, RGByResource, Usage, NamespaceSelector, Preemption, Status>>
wlVars == <<Workloads, WorkloadsNotReady>>
vars == <<ResourceGroups, RGByResource, Usage, Workloads, WorkloadsNotReady,
          NamespaceSelector, Preemption, Status, localQueues, podsReadyTracking,
          Cohort, lastCall, pairing>>

-----------------------------------------------------------------------------
\* Bounds of the model.

\* Largest number of workloads tracked by the queue at one time.
MaxWorkloads == 2

-----------------------------------------------------------------------------
\* Values.

Nil == "nil"
active == "active"
pending == "pending"
terminating == "terminating"

Flavors == {"A", "B"}
Resources == {"cpu", "memory"}

Range(s) == {s[i] : i \in 1..Len(s)}
EmptyMap == [x \in {} |-> 0]

\* The usage ledger cells of a FlavorResourceQuantities value.
Cells(u) == {<<f, r>> : f \in DOMAIN u, r \in UNION {DOMAIN u[g] : g \in DOMAIN u}} \cap
            UNION {{<<f, r>> : r \in DOMAIN u[f]} : f \in DOMAIN u}

\* c.Cohort: the nil pointer, and the cohort whose only member is this queue.
NoCohort == <<>>
CohortsIn == {NoCohort, <<[Name |-> "cohort", Members |-> {"cq"}]>>}

defaultPreemption == [ReclaimWithinCohort |-> "Never", WithinClusterQueue |-> "Never"]
customPreemption == [ReclaimWithinCohort |-> "Any", WithinClusterQueue |-> "LowerPriority"]

-----------------------------------------------------------------------------
\* Inputs of update: kueue.ClusterQueue specs.

\* A pointer of the API is a sequence: <<>> is nil, <<v>> points to v.
ResourceQuotaIn(r) == [Name |-> r, NominalQuota |-> 1, BorrowingLimit |-> <<>>]
FlavorQuotasIn(f, cov) ==
    [Name |-> f, Resources |-> [i \in 1..Len(cov) |-> ResourceQuotaIn(cov[i])]]
ResourceGroupIn(cov, flvs) ==
    [CoveredResources |-> cov,
     Flavors |-> [i \in 1..Len(flvs) |-> FlavorQuotasIn(flvs[i], cov)]]

CpuGroupsIn == {ResourceGroupIn(<<"cpu">>, <<"A">>), ResourceGroupIn(<<"cpu">>, <<"A", "B">>)}
MemGroupsIn == {ResourceGroupIn(<<"memory">>, <<"B">>), ResourceGroupIn(<<"memory">>, <<>>)}

\* Resource group lists in which no two groups cover the same resource.
ResourceGroupsIn ==
    {<<>>} \cup {<<g>> : g \in CpuGroupsIn \cup MemGroupsIn}
           \cup {<<g, h>> : g \in CpuGroupsIn, h \in MemGroupsIn}

MalformedSelector == "malformed"
\* Namespace selector and preemption of a spec.
SpecMetaIn == {<<Nil, <<>>>>, <<"matchLabels{team:a}", <<customPreemption>>>>,
               <<MalformedSelector, <<>>>>}

ClusterQueuesIn ==
    {[ResourceGroups |-> gs, NamespaceSelector |-> m[1], Preemption |-> m[2]] :
        gs \in ResourceGroupsIn, m \in SpecMetaIn}

\* The specs of the ledger specification: cpu on A alone, and with memory on B.
LedgerClusterQueuesIn ==
    {in \in ClusterQueuesIn :
        /\ in.NamespaceSelector = Nil
        /\ in.ResourceGroups \in
              {<<ResourceGroupIn(<<"cpu">>, <<"A">>)>>,
               <<ResourceGroupIn(<<"cpu">>, <<"A">>), ResourceGroupIn(<<"memory">>, <<"B">>)>>}}

\* Flavor registries: the registered flavors with their node labels.
NodeLabelsOf == [A |-> [zone |-> "z1"], B |-> [zone |-> "z1", gpu |-> "g1"]]
FlavorRegistries ==
    {[f \in S |-> [NodeLabels |-> NodeLabelsOf[f]]] : S \in SUBSET Flavors}

LedgerFlavorRegistries == {fr \in FlavorRegistries : DOMAIN fr = Flavors}

\* The specs of the flavor specification: a group with two flavors, a group
\* without flavors, and two groups with one flavor each.
FlavorsClusterQueuesIn ==
    {in \in ClusterQueuesIn :
        /\ in.NamespaceSelector = Nil
        /\ in.ResourceGroups \in
              {<<ResourceGroupIn(<<"cpu">>, <<"A", "B">>)>>,
               <<ResourceGroupIn(<<"cpu">>, <<"A">>), ResourceGroupIn(<<"memory">>, <<>>)>>,
               <<ResourceGroupIn(<<"cpu">>, <<"A">>), ResourceGroupIn(<<"memory">>, <<"B">>)>>}}

\* Workloads handed to addWorkload and deleteWorkload. TotalRequests is the
\* per-pod-set request and flavor assignment that workload.NewInfo derives.
PodSet(req, flv) == [Requests |-> req, Flavors |-> flv]
WorkloadBases ==
    { [Namespace |-> "ns1", Name |-> "w1", QueueName |-> "q1",
       TotalRequests |-> <<PodSet([cpu |-> 1, memory |-> 1],
                                  [cpu |-> "A", memory |-> "A"])>>],
      [Namespace |-> "ns1", Name |-> "w2", QueueName |-> "q1",
       TotalRequests |-> <<PodSet([cpu |-> 1, memory |-> 2], [cpu |-> "A", memory |-> "B"]),
                           PodSet([cpu |-> 1], [cpu |-> "A"])>>],
      [Namespace |-> "ns2", Name |-> "w3", QueueName |-> "q1",
       TotalRequests |-> <<PodSet([memory |-> 1], [memory |-> "B", cpu |-> "A"])>>] }
WorkloadsIn ==
    {[Namespace |-> b.Namespace, Name |-> b.Name, QueueName |-> b.QueueName,
      TotalRequests |-> b.TotalRequests, PodsReady |-> p] :
        b \in WorkloadBases, p \in BOOLEAN}

QuotaWorkloadsIn == {w \in WorkloadsIn : w.Name = "w1" /\ ~w.PodsReady}

\* LocalQueues handed to addLocalQueue and deleteLocalQueue.
LocalQueuesIn == {[Namespace |-> "ns1", Name |-> "q1"], [Namespace |-> "ns2", Name |-> "q2"]}

QuotaLocalQueuesIn == {q \in LocalQueuesIn : q.Name = "q2"}

\* The inputs of the cohort specification: the ledger specs and a spec
\* without groups, the workloads that ask for memory, and their LocalQueue.
CohortClusterQueuesIn ==
    LedgerClusterQueuesIn \cup
        {in \in ClusterQueuesIn : in.NamespaceSelector = Nil /\ in.ResourceGroups = <<>>}
CohortWorkloadsIn ==
    {w \in WorkloadsIn : w.Name = "w2" \/ (w.Name = "w3" /\ w.PodsReady)}
CohortLocalQueuesIn == {q \in LocalQueuesIn : q.Name = "q1"}

-----------------------------------------------------------------------------
\* Helpers outside clusterqueue.go.

\* workload.ResourceValue: cpu in milli-units, everything else in units.
ResourceValue(name, q) == IF name = "cpu" THEN q * 1000 ELSE q

\* metav1.LabelSelectorAsSelector: nil selects nothing, a malformed selector is an error.
LabelSelectorAsSelector(ps) ==
    IF ps = MalformedSelector THEN [selector |-> Nil, err |-> TRUE]
    ELSE IF ps = Nil THEN [selector |-> "<nothing>", err |-> FALSE]
    ELSE [selector |-> "team=a", err |-> FALSE]

\* workload.Key: namespace/name.
Key(w) == <<w.Namespace, w.Name>>
\* workload.QueueKey: namespace/queue name.
QueueKey(w) == <<w.Namespace, w.QueueName>>
\* queueKey of a LocalQueue: namespace/name.
queueKey(q) == <<q.Namespace, q.Name>>

\* workload.NewInfo: the Info the queue stores for a workload.
NewInfo(w) ==
    [Obj |-> [Namespace |-> w.Namespace, Name |-> w.Name, QueueName |-> w.QueueName],
     TotalRequests |-> w.TotalRequests]

-----------------------------------------------------------------------------
\* ClusterQueue.updateResourceGroups and UpdateRGByResource.

\* The ResourceQuota built from one resource of a flavor of the spec.
newResourceQuota(rIn) ==
    [Nominal |-> ResourceValue(rIn.Name, rIn.NominalQuota),
     BorrowingLimit |-> IF rIn.BorrowingLimit # <<>>
                        THEN <<ResourceValue(rIn.Name, rIn.BorrowingLimit[1])>>
                        ELSE <<>>]

\* fQuotas.Resources: the last entry of a resource name wins.
newFlavorQuotas(fIn) ==
    [Name |-> fIn.Name,
     Resources |->
        [r \in {fIn.Resources[i].Name : i \in 1..Len(fIn.Resources)} |->
            LET last == CHOOSE i \in 1..Len(fIn.Resources) :
                            /\ fIn.Resources[i].Name = r
                            /\ \A j \in 1..Len(fIn.Resources) :
                                  fIn.Resources[j].Name = r => j <= i
            IN newResourceQuota(fIn.Resources[last])]]

\* The rebuilt c.ResourceGroups; LabelKeys starts nil (the empty set).
updateResourceGroups(in) ==
    [i \in 1..Len(in) |->
        [CoveredResources |-> Range(in[i].CoveredResources),
         Flavors |-> [j \in 1..Len(in[i].Flavors) |-> newFlavorQuotas(in[i].Flavors[j])],
         LabelKeys |-> {}]]

\* c.RGByResource: the groups are visited in order, a later group overwrites.
RECURSIVE rgByResourceFrom(_, _, _)
rgByResourceFrom(rgs, i, acc) ==
    IF i > Len(rgs) THEN acc
    ELSE rgByResourceFrom(rgs, i + 1,
            [r \in DOMAIN acc \cup rgs[i].CoveredResources |->
                IF r \in rgs[i].CoveredResources THEN i ELSE acc[r]])

UpdateRGByResource(rgs) == rgByResourceFrom(rgs, 1, EmptyMap)

-----------------------------------------------------------------------------
\* ClusterQueue.update: cleanup of removed flavors or resources.

\* usedResources of one flavor of the spec, read from the ledger before the call.
usedResourcesOf(f, usage) ==
    [r \in {f.Resources[i].Name : i \in 1..Len(f.Resources)} |->
        IF f.Name \in DOMAIN usage /\ r \in DOMAIN usage[f.Name]
        THEN usage[f.Name][r] ELSE 0]

\* usedFlavorResources[f.Name] = usedResources, for the flavors of one group in order.
RECURSIVE cleanupFlavors(_, _, _, _)
cleanupFlavors(flvs, j, usage, acc) ==
    IF j > Len(flvs) THEN acc
    ELSE cleanupFlavors(flvs, j + 1, usage,
            [f \in DOMAIN acc \cup {flvs[j].Name} |->
                IF f = flvs[j].Name THEN usedResourcesOf(flvs[j], usage) ELSE acc[f]])

RECURSIVE cleanupGroups(_, _, _, _)
cleanupGroups(in, i, usage, acc) ==
    IF i > Len(in) THEN acc
    ELSE cleanupGroups(in, i + 1, usage, cleanupFlavors(in[i].Flavors, 1, usage, acc))

\* The new c.Usage.
usedFlavorResources(in, usage) == cleanupGroups(in, 1, usage, EmptyMap)

-----------------------------------------------------------------------------
\* ClusterQueue.UpdateWithFlavors and updateLabelKeys.

\* keys of one group: the node label keys of its registered flavors.
groupKeys(rg, flavors) ==
    UNION {DOMAIN flavors[rg.Flavors[j].Name].NodeLabels :
            j \in {k \in 1..Len(rg.Flavors) : rg.Flavors[k].Name \in DOMAIN flavors}}

\* The LabelKeys of one group after the pass.
newLabelKeys(rg, flavors) ==
    IF Len(rg.Flavors) = 0 THEN {}
    ELSE IF Cardinality(groupKeys(rg, flavors)) > 0 THEN groupKeys(rg, flavors)
    ELSE rg.LabelKeys

\* Mutant: flavorNotFound is reset for every group, so only the last group counts.
updateLabelKeysLastGroup(rgs, flavors) ==
    [groups |-> [i \in 1..Len(rgs) |-> [rgs[i] EXCEPT !.LabelKeys = newLabelKeys(rgs[i], flavors)]],
     flavorNotFound |-> /\ Len(rgs) > 0
                        /\ \E j \in 1..Len(rgs[Len(rgs)].Flavors) :
                              rgs[Len(rgs)].Flavors[j].Name \notin DOMAIN flavors]

\* updateLabelKeys: the groups with their new label keys, and flavorNotFound.
updateLabelKeys(rgs, flavors) ==
    [groups |-> [i \in 1..Len(rgs) |-> [rgs[i] EXCEPT !.LabelKeys = newLabelKeys(rgs[i], flavors)]],
     flavorNotFound |-> \E i \in 1..Len(rgs) : \E j \in 1..Len(rgs[i].Flavors) :
                            rgs[i].Flavors[j].Name \notin DOMAIN flavors]

\* The status UpdateWithFlavors computes from flavorNotFound.
computedStatus(flavorNotFound) == IF flavorNotFound THEN pending ELSE active

\* Mutant: the computed status is stored whatever the current status is.
storedStatusUnguarded(cur, status) == status

\* The status UpdateWithFlavors stores: Terminating is kept.
storedStatus(cur, status) == IF cur # terminating THEN status ELSE cur

-----------------------------------------------------------------------------
\* updateUsage, updateWorkloadUsage, resetFlavorsAndResources.

\* Mutant: the multiplier is dropped, so a removal adds the request again.
usageDeltaUnsigned(v, m) == v

\* The change of one cell for a request of v with multiplier m.
usageDelta(v, m) == v * m

\* Mutant: a resource that the flavor's entry lacks is added to the entry.
RECURSIVE updateUsagePodSetCreating(_, _, _, _)
updateUsagePodSetCreating(ps, todo, flvUsage, m) ==
    IF todo = {} THEN flvUsage
    ELSE LET wlRes == CHOOSE r \in todo : TRUE
             wlResFlv == ps.Flavors[wlRes]
             wlResExist == wlRes \in DOMAIN ps.Requests
             flvExist == wlResFlv \in DOMAIN flvUsage
             next == IF flvExist /\ wlResExist
                     THEN [f \in DOMAIN flvUsage |->
                            IF f # wlResFlv THEN flvUsage[f]
                            ELSE [r \in DOMAIN flvUsage[f] \cup {wlRes} |->
                                    IF r # wlRes THEN flvUsage[f][r]
                                    ELSE (IF r \in DOMAIN flvUsage[f] THEN flvUsage[f][r] ELSE 0)
                                            + usageDelta(ps.Requests[wlRes], m)]]
                     ELSE flvUsage
         IN updateUsagePodSetCreating(ps, todo \ {wlRes}, next, m)

\* The loop over ps.Flavors of one pod set.
RECURSIVE updateUsagePodSet(_, _, _, _)
updateUsagePodSet(ps, todo, flvUsage, m) ==
    IF todo = {} THEN flvUsage
    ELSE LET wlRes == CHOOSE r \in todo : TRUE
             wlResFlv == ps.Flavors[wlRes]
             wlResExist == wlRes \in DOMAIN ps.Requests
             flvExist == wlResFlv \in DOMAIN flvUsage
             next == IF flvExist /\ wlResExist /\ wlRes \in DOMAIN flvUsage[wlResFlv]
                     THEN [flvUsage EXCEPT ![wlResFlv][wlRes] =
                                @ + usageDelta(ps.Requests[wlRes], m)]
                     ELSE flvUsage
         IN updateUsagePodSet(ps, todo \ {wlRes}, next, m)

RECURSIVE updateUsageFrom(_, _, _, _)
updateUsageFrom(totalRequests, i, flvUsage, m) ==
    IF i > Len(totalRequests) THEN flvUsage
    ELSE updateUsageFrom(totalRequests, i + 1,
            updateUsagePodSet(totalRequests[i], DOMAIN totalRequests[i].Flavors, flvUsage, m), m)

updateUsage(wi, flvUsage, m) == updateUsageFrom(wi.TotalRequests, 1, flvUsage, m)

\* Mutant: the admitted count of the LocalQueue is not changed.
updateLocalQueueUsageNoCount(wi, lqs, m) ==
    IF QueueKey(wi.Obj) \in DOMAIN lqs
    THEN [lqs EXCEPT ![QueueKey(wi.Obj)] =
            [key |-> @.key,
             admittedWorkloads |-> @.admittedWorkloads,
             usage |-> updateUsage(wi, @.usage, m)]]
    ELSE lqs

\* The localQueues after updateWorkloadUsage mirrors the change.
updateLocalQueueUsage(wi, lqs, m) ==
    IF QueueKey(wi.Obj) \in DOMAIN lqs
    THEN [lqs EXCEPT ![QueueKey(wi.Obj)] =
            [key |-> @.key,
             admittedWorkloads |-> @.admittedWorkloads + m,
             usage |-> updateUsage(wi, @.usage, m)]]
    ELSE lqs

\* queue.resetFlavorsAndResources: q.usage reshaped to the cells of cqUsage.
resetFlavorsAndResources(qUsage, cqUsage) ==
    [cqFlv \in DOMAIN cqUsage |->
        [rName \in DOMAIN cqUsage[cqFlv] |->
            IF cqFlv \in DOMAIN qUsage /\ rName \in DOMAIN qUsage[cqFlv]
            THEN qUsage[cqFlv][rName] ELSE 0]]

\* Mutant: the namespace is not compared.
workloadBelongsByNameOnly(wl, q) == wl.QueueName = q.Name

workloadBelongsToLocalQueue(wl, q) ==
    wl.Namespace = q.Namespace /\ wl.QueueName = q.Name

\* Mutant: the workloads admitted before the registration are not counted.
backfillNothing(wls, todo, q, qImpl) == qImpl

\* The loop of addLocalQueue over c.Workloads.
RECURSIVE backfill(_, _, _, _)
backfill(wls, todo, q, qImpl) ==
    IF todo = {} THEN qImpl
    ELSE LET k == CHOOSE x \in todo : TRUE
             wl == wls[k]
             next == IF workloadBelongsToLocalQueue(wl.Obj, q)
                     THEN [key |-> qImpl.key,
                           admittedWorkloads |-> qImpl.admittedWorkloads + 1,
                           usage |-> updateUsage(wl, qImpl.usage, 1)]
                     ELSE qImpl
         IN backfill(wls, todo \ {k}, q, next)

\* Mutant: the search gives up after the first group.
flavorInUseFirstGroup(flavor) ==
    /\ Len(ResourceGroups) > 0
    /\ \E j \in 1..Len(ResourceGroups[1].Flavors) : ResourceGroups[1].Flavors[j].Name = flavor

\* ClusterQueue.flavorInUse
flavorInUse(flavor) ==
    \E i \in 1..Len(ResourceGroups) : \E j \in 1..Len(ResourceGroups[i].Flavors) :
        ResourceGroups[i].Flavors[j].Name = flavor

\* Mutant: usage that equals the nominal quota counts as borrowing.
IsBorrowingAtNominal ==
    IF Cohort = <<>> \/ Cardinality(DOMAIN Usage) = 0 THEN FALSE
    ELSE \E i \in 1..Len(ResourceGroups) : \E j \in 1..Len(ResourceGroups[i].Flavors) :
            LET flvQuotas == ResourceGroups[i].Flavors[j]
            IN /\ flvQuotas.Name \in DOMAIN Usage
               /\ \E rName \in DOMAIN flvQuotas.Resources :
                     LET flvUsage == Usage[flvQuotas.Name]
                         used == IF rName \in DOMAIN flvUsage THEN flvUsage[rName] ELSE 0
                     IN used >= flvQuotas.Resources[rName].Nominal

\* ClusterQueue.IsBorrowing: a missing entry of flvUsage reads as 0.
IsBorrowing ==
    IF Cohort = <<>> \/ Cardinality(DOMAIN Usage) = 0 THEN FALSE
    ELSE \E i \in 1..Len(ResourceGroups) : \E j \in 1..Len(ResourceGroups[i].Flavors) :
            LET flvQuotas == ResourceGroups[i].Flavors[j]
            IN /\ flvQuotas.Name \in DOMAIN Usage
               /\ \E rName \in DOMAIN flvQuotas.Resources :
                     LET flvUsage == Usage[flvQuotas.Name]
                         used == IF rName \in DOMAIN flvUsage THEN flvUsage[rName] ELSE 0
                     IN used > flvQuotas.Resources[rName].Nominal

\* Cohort.HasBorrowingQueues: this queue is the only member that is modelled.
HasBorrowingQueues(c) == \E cq \in c.Members : IsBorrowing

-----------------------------------------------------------------------------
\* History kept for the properties.

\* The arguments a call does not have: no registry, no key.
NoFlavors == EmptyMap
NoKey == <<>>

\* found is written by the calls that look their key up and cannot fail.
Call(op, err, flavors, key) ==
    [op |-> op, err |-> err, flavors |-> flavors, key |-> key, found |-> FALSE]

\* A call that looks its key up and cannot fail; found says whether the key was there.
CallOn(op, key, found) ==
    [op |-> op, err |-> FALSE, flavors |-> NoFlavors, key |-> key, found |-> found]

\* The ledger of the queue and of its LocalQueues before a run of admits and
\* removes of one identity k; ok says whether the first admit succeeded.
NoPairing == [state |-> "none"]

pairingAfterAdd(k) ==
    IF pairing.state = "open" /\ pairing.key = k THEN pairing
    ELSE [state |-> "open", key |-> k, ok |-> k \notin DOMAIN Workloads,
          Usage |-> Usage, localQueues |-> localQueues]

pairingAfterDelete(k) ==
    IF pairing.state = "open" /\ pairing.key = k
    THEN [pairing EXCEPT !.state = "closed"]
    ELSE NoPairing

-----------------------------------------------------------------------------
\* The state after construction: empty maps, then the first update, which
\* must succeed for the queue to exist.

InitWith(cqs, regs, cohorts) ==
    \E in \in cqs, resourceFlavors \in regs, tracking \in BOOLEAN, cohort \in cohorts :
        LET rgs == updateResourceGroups(in.ResourceGroups)
            lk == updateLabelKeys(rgs, resourceFlavors)
            sel == LabelSelectorAsSelector(in.NamespaceSelector)
        IN /\ ~sel.err
           /\ ResourceGroups = lk.groups
           /\ RGByResource = UpdateRGByResource(rgs)
           /\ NamespaceSelector = sel.selector
           /\ Usage = usedFlavorResources(in.ResourceGroups, EmptyMap)
           /\ Status = computedStatus(lk.flavorNotFound)
           /\ Preemption = (IF in.Preemption # <<>> THEN in.Preemption[1] ELSE defaultPreemption)
           /\ Workloads = EmptyMap
           /\ WorkloadsNotReady = {}
           /\ localQueues = EmptyMap
           /\ podsReadyTracking = tracking
           /\ Cohort = cohort
           /\ lastCall = Call("newClusterQueue", FALSE, resourceFlavors, NoKey)
           /\ pairing = NoPairing

-----------------------------------------------------------------------------
\* Operations.

\* ClusterQueue.update
update(in, resourceFlavors) ==
    LET rgs == updateResourceGroups(in.ResourceGroups)
        lk == updateLabelKeys(rgs, resourceFlavors)
        sel == LabelSelectorAsSelector(in.NamespaceSelector)
    IN /\ RGByResource' = UpdateRGByResource(rgs)
       /\ IF sel.err
          THEN /\ ResourceGroups' = rgs
               /\ UNCHANGED <<Usage, NamespaceSelector, Preemption, Status>>
          ELSE /\ NamespaceSelector' = sel.selector
               /\ Usage' = usedFlavorResources(in.ResourceGroups, Usage)
               /\ ResourceGroups' = lk.groups
               /\ Status' = storedStatus(Status, computedStatus(lk.flavorNotFound))
               /\ Preemption' = (IF in.Preemption # <<>> THEN in.Preemption[1]
                                 ELSE defaultPreemption)
       /\ lastCall' = Call("update", sel.err, resourceFlavors, NoKey)
       /\ pairing' = NoPairing
       /\ UNCHANGED <<wlVars, localQueues, podsReadyTracking, Cohort>>

\* ClusterQueue.UpdateWithFlavors
UpdateWithFlavors(flavors) ==
    LET lk == updateLabelKeys(ResourceGroups, flavors)
    IN /\ ResourceGroups' = lk.groups
       /\ Status' = storedStatus(Status, computedStatus(lk.flavorNotFound))
       /\ lastCall' = Call("UpdateWithFlavors", FALSE, flavors, NoKey)
       /\ pairing' = NoPairing
       /\ UNCHANGED <<RGByResource, Usage, NamespaceSelector, Preemption,
                      wlVars, localQueues, podsReadyTracking, Cohort>>

\* Cache.TerminateClusterQueue: the queue's spec is being deleted.
Terminate ==
    /\ Status' = terminating
    /\ lastCall' = Call("Terminate", FALSE, NoFlavors, NoKey)
    /\ pairing' = NoPairing
    /\ UNCHANGED <<ResourceGroups, RGByResource, Usage, NamespaceSelector, Preemption,
                   wlVars, localQueues, podsReadyTracking, Cohort>>

\* Mutant: no check for a workload that is already tracked.
addWorkloadUnchecked(w) ==
    LET k == Key(w)
        wi == NewInfo(w)
    IN /\ k \in DOMAIN Workloads \/ Cardinality(DOMAIN Workloads) < MaxWorkloads
       /\ Workloads' = [x \in DOMAIN Workloads \cup {k} |-> IF x = k THEN wi ELSE Workloads[x]]
       /\ Usage' = updateUsage(wi, Usage, 1)
       /\ localQueues' = updateLocalQueueUsage(wi, localQueues, 1)
       /\ WorkloadsNotReady' = (IF podsReadyTracking /\ ~w.PodsReady
                                THEN WorkloadsNotReady \cup {k}
                                ELSE WorkloadsNotReady)
       /\ lastCall' = Call("addWorkload", k \in DOMAIN Workloads, NoFlavors, k)
       /\ pairing' = pairingAfterAdd(k)
       /\ UNCHANGED <<ResourceGroups, RGByResource, NamespaceSelector, Preemption, Status,
                      podsReadyTracking, Cohort>>

\* ClusterQueue.addWorkload
addWorkload(w) ==
    LET k == Key(w)
        wi == NewInfo(w)
    IN /\ k \in DOMAIN Workloads \/ Cardinality(DOMAIN Workloads) < MaxWorkloads
       /\ IF k \in DOMAIN Workloads
          THEN UNCHANGED <<Workloads, WorkloadsNotReady, Usage, localQueues>>
          ELSE /\ Workloads' = [x \in DOMAIN Workloads \cup {k} |->
                                    IF x = k THEN wi ELSE Workloads[x]]
               /\ Usage' = updateUsage(wi, Usage, 1)
               /\ localQueues' = updateLocalQueueUsage(wi, localQueues, 1)
               /\ WorkloadsNotReady' = (IF podsReadyTracking /\ ~w.PodsReady
                                        THEN WorkloadsNotReady \cup {k}
                                        ELSE WorkloadsNotReady)
       /\ lastCall' = Call("addWorkload", k \in DOMAIN Workloads, NoFlavors, k)
       /\ pairing' = pairingAfterAdd(k)
       /\ UNCHANGED <<ResourceGroups, RGByResource, NamespaceSelector, Preemption, Status,
                      podsReadyTracking, Cohort>>

\* Mutant: no check that the workload is tracked; the object passed in is
\* taken off the ledger.
deleteWorkloadUnchecked(w) ==
    LET k == Key(w)
        wi == IF k \in DOMAIN Workloads THEN Workloads[k] ELSE NewInfo(w)
    IN /\ Usage' = updateUsage(wi, Usage, -1)
       /\ localQueues' = updateLocalQueueUsage(wi, localQueues, -1)
       /\ WorkloadsNotReady' = (IF podsReadyTracking /\ ~w.PodsReady
                                THEN WorkloadsNotReady \ {k}
                                ELSE WorkloadsNotReady)
       /\ Workloads' = [x \in DOMAIN Workloads \ {k} |-> Workloads[x]]
       /\ lastCall' = CallOn("deleteWorkload", k, k \in DOMAIN Workloads)
       /\ pairing' = pairingAfterDelete(k)
       /\ UNCHANGED <<ResourceGroups, RGByResource, NamespaceSelector, Preemption, Status,
                      podsReadyTracking, Cohort>>

\* ClusterQueue.deleteWorkload
deleteWorkload(w) ==
    LET k == Key(w)
    IN /\ IF k \notin DOMAIN Workloads
          THEN UNCHANGED <<Workloads, WorkloadsNotReady, Usage, localQueues>>
          ELSE /\ Usage' = updateUsage(Workloads[k], Usage, -1)
               /\ localQueues' = updateLocalQueueUsage(Workloads[k], localQueues, -1)
               /\ WorkloadsNotReady' = (IF podsReadyTracking /\ ~w.PodsReady
                                        THEN WorkloadsNotReady \ {k}
                                        ELSE WorkloadsNotReady)
               /\ Workloads' = [x \in DOMAIN Workloads \ {k} |-> Workloads[x]]
       /\ lastCall' = CallOn("deleteWorkload", k, k \in DOMAIN Workloads)
       /\ pairing' = pairingAfterDelete(k)
       /\ UNCHANGED <<ResourceGroups, RGByResource, NamespaceSelector, Preemption, Status,
                      podsReadyTracking, Cohort>>

\* Mutant: no check for a LocalQueue that is already registered.
addLocalQueueUnchecked(q) ==
    LET qKey == queueKey(q)
        qImpl == [key |-> qKey, admittedWorkloads |-> 0,
                  usage |-> resetFlavorsAndResources(EmptyMap, Usage)]
    IN /\ localQueues' = [x \in DOMAIN localQueues \cup {qKey} |->
                              IF x = qKey
                              THEN backfill(Workloads, DOMAIN Workloads, q, qImpl)
                              ELSE localQueues[x]]
       /\ lastCall' = Call("addLocalQueue", FALSE, NoFlavors, qKey)
       /\ pairing' = NoPairing
       /\ UNCHANGED <<cqVars, wlVars, podsReadyTracking, Cohort>>

\* ClusterQueue.addLocalQueue
addLocalQueue(q) ==
    LET qKey == queueKey(q)
        qImpl == [key |-> qKey, admittedWorkloads |-> 0,
                  usage |-> resetFlavorsAndResources(EmptyMap, Usage)]
    IN /\ IF qKey \in DOMAIN localQueues
          THEN UNCHANGED localQueues
          ELSE localQueues' = [x \in DOMAIN localQueues \cup {qKey} |->
                                  IF x = qKey
                                  THEN backfill(Workloads, DOMAIN Workloads, q, qImpl)
                                  ELSE localQueues[x]]
       /\ lastCall' = Call("addLocalQueue", qKey \in DOMAIN localQueues, NoFlavors, qKey)
       /\ pairing' = NoPairing
       /\ UNCHANGED <<cqVars, wlVars, podsReadyTracking, Cohort>>

\* ClusterQueue.deleteLocalQueue
deleteLocalQueue(q) ==
    /\ localQueues' = [x \in DOMAIN localQueues \ {queueKey(q)} |-> localQueues[x]]
    /\ lastCall' = CallOn("deleteLocalQueue", queueKey(q), queueKey(q) \in DOMAIN localQueues)
    /\ pairing' = NoPairing
    /\ UNCHANGED <<cqVars, wlVars, podsReadyTracking, Cohort>>

-----------------------------------------------------------------------------
\* The operations as functions of the queue, to apply events to a queue that
\* is not the current state.

\* The fields of the queue.
Current ==
    [ResourceGroups |-> ResourceGroups, RGByResource |-> RGByResource, Usage |-> Usage,
     Workloads |-> Workloads, WorkloadsNotReady |-> WorkloadsNotReady,
     NamespaceSelector |-> NamespaceSelector, Preemption |-> Preemption, Status |-> Status,
     localQueues |-> localQueues, podsReadyTracking |-> podsReadyTracking, Cohort |-> Cohort]

\* ClusterQueue.update
updateOn(c, in, resourceFlavors) ==
    LET rgs == updateResourceGroups(in.ResourceGroups)
        lk == updateLabelKeys(rgs, resourceFlavors)
        sel == LabelSelectorAsSelector(in.NamespaceSelector)
    IN IF sel.err
       THEN [c EXCEPT !.ResourceGroups = rgs, !.RGByResource = UpdateRGByResource(rgs)]
       ELSE [c EXCEPT !.ResourceGroups = lk.groups,
                      !.RGByResource = UpdateRGByResource(rgs),
                      !.NamespaceSelector = sel.selector,
                      !.Usage = usedFlavorResources(in.ResourceGroups, c.Usage),
                      !.Status = storedStatus(c.Status, computedStatus(lk.flavorNotFound)),
                      !.Preemption = IF in.Preemption # <<>> THEN in.Preemption[1]
                                     ELSE defaultPreemption]

\* ClusterQueue.UpdateWithFlavors
UpdateWithFlavorsOn(c, flavors) ==
    LET lk == updateLabelKeys(c.ResourceGroups, flavors)
    IN [c EXCEPT !.ResourceGroups = lk.groups,
                 !.Status = storedStatus(c.Status, computedStatus(lk.flavorNotFound))]

\* ClusterQueue.addWorkload
addWorkloadOn(c, w) ==
    LET k == Key(w)
        wi == NewInfo(w)
    IN IF k \in DOMAIN c.Workloads THEN c
       ELSE [c EXCEPT !.Workloads = [x \in DOMAIN c.Workloads \cup {k} |->
                                        IF x = k THEN wi ELSE c.Workloads[x]],
                      !.Usage = updateUsage(wi, c.Usage, 1),
                      !.localQueues = updateLocalQueueUsage(wi, c.localQueues, 1),
                      !.WorkloadsNotReady = IF c.podsReadyTracking /\ ~w.PodsReady
                                            THEN c.WorkloadsNotReady \cup {k}
                                            ELSE c.WorkloadsNotReady]

\* ClusterQueue.deleteWorkload
deleteWorkloadOn(c, w) ==
    LET k == Key(w)
    IN IF k \notin DOMAIN c.Workloads THEN c
       ELSE [c EXCEPT !.Usage = updateUsage(c.Workloads[k], c.Usage, -1),
                      !.localQueues = updateLocalQueueUsage(c.Workloads[k], c.localQueues, -1),
                      !.WorkloadsNotReady = IF c.podsReadyTracking /\ ~w.PodsReady
                                            THEN c.WorkloadsNotReady \ {k}
                                            ELSE c.WorkloadsNotReady,
                      !.Workloads = [x \in DOMAIN c.Workloads \ {k} |-> c.Workloads[x]]]

\* ClusterQueue.addLocalQueue
addLocalQueueOn(c, q) ==
    LET qKey == queueKey(q)
        qImpl == [key |-> qKey, admittedWorkloads |-> 0,
                  usage |-> resetFlavorsAndResources(EmptyMap, c.Usage)]
    IN IF qKey \in DOMAIN c.localQueues THEN c
       ELSE [c EXCEPT !.localQueues =
                [x \in DOMAIN c.localQueues \cup {qKey} |->
                    IF x = qKey THEN backfill(c.Workloads, DOMAIN c.Workloads, q, qImpl)
                    ELSE c.localQueues[x]]]

\* ClusterQueue.deleteLocalQueue
deleteLocalQueueOn(c, q) ==
    [c EXCEPT !.localQueues = [x \in DOMAIN c.localQueues \ {queueKey(q)} |->
                                  c.localQueues[x]]]

\* The events of the four streams of the cohort specification.
QuotaEvents ==
    {[stream |-> "quota", op |-> "update", in |-> in, flavors |-> fl] :
        in \in CohortClusterQueuesIn, fl \in LedgerFlavorRegistries}
FlavorEvents ==
    {[stream |-> "flavors", op |-> "UpdateWithFlavors", flavors |-> fl] :
        fl \in LedgerFlavorRegistries}
WorkloadEvents ==
    {[stream |-> "workloads", op |-> o, w |-> w] :
        o \in {"addWorkload", "deleteWorkload"}, w \in CohortWorkloadsIn}
LocalQueueEvents ==
    {[stream |-> "localQueues", op |-> o, q |-> q] :
        o \in {"addLocalQueue", "deleteLocalQueue"}, q \in CohortLocalQueuesIn}

\* The queue after one event.
Apply(c, e) ==
    CASE e.op = "update" -> updateOn(c, e.in, e.flavors)
      [] e.op = "UpdateWithFlavors" -> UpdateWithFlavorsOn(c, e.flavors)
      [] e.op = "addWorkload" -> addWorkloadOn(c, e.w)
      [] e.op = "deleteWorkload" -> deleteWorkloadOn(c, e.w)
      [] e.op = "addLocalQueue" -> addLocalQueueOn(c, e.q)
      [] e.op = "deleteLocalQueue" -> deleteLocalQueueOn(c, e.q)

\* One step of the queue, with the arguments of the calls drawn from the given sets.
NextWith(cqs, regs, wls, lqs) ==
    \/ \E in \in cqs, resourceFlavors \in regs : update(in, resourceFlavors)
    \/ \E flavors \in regs : UpdateWithFlavors(flavors)
    \/ Terminate
    \/ \E w \in wls : addWorkload(w)
    \/ \E w \in wls : deleteWorkload(w)
    \/ \E q \in lqs : addLocalQueue(q)
    \/ \E q \in lqs : deleteLocalQueue(q)

\* The ledger under every workload and LocalQueue event, with a few quota
\* specs that add and remove ledger cells.
Init == InitWith(LedgerClusterQueuesIn, LedgerFlavorRegistries, {NoCohort})
Next == NextWith(LedgerClusterQueuesIn, LedgerFlavorRegistries, WorkloadsIn, LocalQueuesIn)
Spec == Init /\ [][Next]_vars

\* The quota reconfiguration under every spec, with every flavor registered
\* and the events of one workload and one LocalQueue.
InitQuota == InitWith(ClusterQueuesIn, LedgerFlavorRegistries, {NoCohort})
NextQuota ==
    NextWith(ClusterQueuesIn, LedgerFlavorRegistries, QuotaWorkloadsIn, QuotaLocalQueuesIn)
SpecQuota == InitQuota /\ [][NextQuota]_vars

\* The flavor reconciliation under every registry, with the events of one
\* workload and one LocalQueue.
InitFlavors == InitWith(FlavorsClusterQueuesIn, FlavorRegistries, {NoCohort})
NextFlavors ==
    NextWith(FlavorsClusterQueuesIn, FlavorRegistries, QuotaWorkloadsIn, QuotaLocalQueuesIn)
SpecFlavors == InitFlavors /\ [][NextFlavors]_vars

\* The queue inside and outside a cohort, with workloads that bring the
\* memory cell below, to and above its nominal quota.
InitCohort == InitWith(CohortClusterQueuesIn, LedgerFlavorRegistries, CohortsIn)
NextCohort ==
    NextWith(CohortClusterQueuesIn, LedgerFlavorRegistries, CohortWorkloadsIn,
             CohortLocalQueuesIn)
SpecCohort == InitCohort /\ [][NextCohort]_vars

-----------------------------------------------------------------------------
\* Properties.

\* The flavor/resource pairs a spec declares.
DeclaredIn(in) ==
    UNION {UNION {{<<in[i].Flavors[j].Name, in[i].Flavors[j].Resources[n].Name>> :
                        n \in 1..Len(in[i].Flavors[j].Resources)} :
                    j \in 1..Len(in[i].Flavors)} :
            i \in 1..Len(in)}

\* The flavor/resource pairs the FlavorQuotas of the queue's groups declare.
DeclaredCells ==
    UNION {UNION {{<<ResourceGroups[i].Flavors[j].Name, r>> :
                        r \in DOMAIN ResourceGroups[i].Flavors[j].Resources} :
                    j \in 1..Len(ResourceGroups[i].Flavors)} :
            i \in 1..Len(ResourceGroups)}

\* The flavors the queue's groups name.
NamedFlavors ==
    UNION {{ResourceGroups[i].Flavors[j].Name : j \in 1..Len(ResourceGroups[i].Flavors)} :
            i \in 1..Len(ResourceGroups)}

RECURSIVE SumFn(_)
SumFn(fn) ==
    IF DOMAIN fn = {} THEN 0
    ELSE LET x == CHOOSE y \in DOMAIN fn : TRUE
         IN fn[x] + SumFn([y \in DOMAIN fn \ {x} |-> fn[y]])

\* What a workload commits to the cell of flavor f and resource r.
Commitment(wi, f, r) ==
    SumFn([i \in 1..Len(wi.TotalRequests) |->
            LET ps == wi.TotalRequests[i]
            IN IF r \in DOMAIN ps.Flavors /\ ps.Flavors[r] = f /\ r \in DOMAIN ps.Requests
               THEN ps.Requests[r] ELSE 0])

\* C1: a successful update keeps the count of every declared cell that was in
\* the ledger, gives 0 to every declared cell that was not, and leaves no
\* cell that the new spec does not declare.
C1_UpdateCarriesUsage ==
    [][\A in \in ClusterQueuesIn, fl \in LedgerFlavorRegistries :
          (update(in, fl) /\ ~lastCall'.err) =>
              /\ \A c \in DeclaredIn(in.ResourceGroups) :
                    /\ c \in Cells(Usage')
                    /\ Usage'[c[1]][c[2]] =
                          (IF c \in Cells(Usage) THEN Usage[c[1]][c[2]] ELSE 0)
              /\ Cells(Usage') \subseteq DeclaredIn(in.ResourceGroups)]_vars

\* C2: an update with a malformed namespace selector returns an error and
\* leaves ResourceGroups, RGByResource, Usage, NamespaceSelector, Preemption
\* and Status as they were.
C2_FailedUpdateChangesNothing ==
    [][\A in \in ClusterQueuesIn, fl \in LedgerFlavorRegistries :
          (update(in, fl) /\ in.NamespaceSelector = MalformedSelector) =>
              /\ lastCall'.err
              /\ UNCHANGED cqVars]_vars

\* C3: the cells of the Usage ledger are exactly the flavor/resource pairs
\* declared by the FlavorQuotas of the ResourceGroups.
C3_UsageCellsAreDeclaredCells == Cells(Usage) = DeclaredCells

\* C4 as stated: after a run of admits and removes of one identity that ends
\* with a remove, the ledger of the queue and the ledger and admitted count
\* of every LocalQueue are what they were before the run.
C4_PairedAdmitRemoveAnyStart ==
    pairing.state = "closed" =>
        /\ Usage = pairing.Usage
        /\ localQueues = pairing.localQueues

\* C4 amended: the same, for a run that begins with the identity untracked,
\* so that its first admit succeeds.
C4_PairedAdmitRemove ==
    (pairing.state = "closed" /\ pairing.ok) =>
        /\ Usage = pairing.Usage
        /\ localQueues = pairing.localQueues

\* A run admit w1, remove w1 is over, w1's cell A/cpu is in the ledger with
\* another workload's usage, and w1's LocalQueue is registered.
C4_Witness ==
    /\ pairing.state = "closed" /\ pairing.ok
    /\ pairing.key = <<"ns1", "w1">>
    /\ <<"A", "cpu">> \in Cells(Usage) /\ Usage["A"]["cpu"] > 0
    /\ <<"ns1", "q1">> \in DOMAIN localQueues
    /\ <<"ns1", "q1">> \in DOMAIN pairing.localQueues

\* C5: once Status is Terminating it stays Terminating.
C5_TerminatingIsSticky == [][Status = terminating => Status' = terminating]_vars

\* A reconciliation that misses a flavor has run on a Terminating queue.
C5_Witness ==
    /\ Status = terminating
    /\ lastCall.op \in {"UpdateWithFlavors", "update"}
    /\ ~lastCall.err
    /\ NamedFlavors \ DOMAIN lastCall.flavors # {}

\* C6: right after UpdateWithFlavors, and after a successful update, of a
\* queue that is not Terminating, Status is Pending if some flavor named in a
\* ResourceGroup is not in the registry of the call, and Active otherwise.
C6_StatusFollowsRegistry ==
    (/\ lastCall.op \in {"UpdateWithFlavors", "update"}
     /\ ~lastCall.err
     /\ Status # terminating) =>
        Status = (IF NamedFlavors \ DOMAIN lastCall.flavors # {} THEN pending ELSE active)

\* A queue whose group names A and B was reconciled with only A registered
\* and is Pending.
C6_Witness ==
    /\ lastCall.op = "UpdateWithFlavors"
    /\ DOMAIN lastCall.flavors = {"A"}
    /\ NamedFlavors = {"A", "B"}
    /\ Status = pending

\* C7: right after UpdateWithFlavors a group with flavors has as label keys
\* exactly the node label keys of its flavors registered in the registry of
\* the call, and a group without flavors has none.
C7_LabelKeysFollowRegistry ==
    lastCall.op = "UpdateWithFlavors" =>
        \A i \in 1..Len(ResourceGroups) :
            ResourceGroups[i].LabelKeys =
                UNION {DOMAIN lastCall.flavors[f].NodeLabels :
                        f \in {ResourceGroups[i].Flavors[j].Name :
                                j \in 1..Len(ResourceGroups[i].Flavors)}
                              \cap DOMAIN lastCall.flavors}

\* C8: addWorkload of a tracked identity returns an error and leaves
\* Workloads, Usage, WorkloadsNotReady and the LocalQueues as they were.
C8_DuplicateAdmitChangesNothing ==
    [][\A w \in WorkloadsIn :
          (addWorkload(w) /\ Key(w) \in DOMAIN Workloads) =>
              /\ lastCall'.err
              /\ UNCHANGED <<Workloads, Usage, WorkloadsNotReady, localQueues>>]_vars

\* A duplicate admit was rejected while the ledger held usage.
C8_Witness ==
    /\ lastCall.op = "addWorkload" /\ lastCall.err
    /\ lastCall.key \in DOMAIN Workloads
    /\ \E c \in Cells(Usage) : Usage[c[1]][c[2]] > 0

\* C9: the not-ready set holds only identities of tracked workloads.
C9_NotReadyAreTracked == WorkloadsNotReady \subseteq DOMAIN Workloads

\* The tracked workloads that belong to the LocalQueue with key qKey.
WorkloadsOf(qKey) ==
    {k \in DOMAIN Workloads :
        Workloads[k].Obj.Namespace = qKey[1] /\ Workloads[k].Obj.QueueName = qKey[2]}

\* C10: right after a successful addLocalQueue the new queue's admitted count
\* is the number of tracked workloads of its namespace and name, and its
\* usage of every cell of the queue's ledger is the sum of what those
\* workloads commit to the cell.
C10_RegistrationBackfill ==
    (lastCall.op = "addLocalQueue" /\ ~lastCall.err) =>
        LET q == localQueues[lastCall.key]
        IN /\ q.admittedWorkloads = Cardinality(WorkloadsOf(lastCall.key))
           /\ \A c \in Cells(Usage) :
                /\ c \in Cells(q.usage)
                /\ q.usage[c[1]][c[2]] =
                      SumFn([k \in WorkloadsOf(lastCall.key) |->
                                Commitment(Workloads[k], c[1], c[2])])

\* A LocalQueue was registered while one of its workloads and a workload of
\* another namespace with the same queue name were tracked, both committed
\* to cells of the ledger.
C10_Witness ==
    /\ lastCall.op = "addLocalQueue" /\ ~lastCall.err
    /\ lastCall.key = <<"ns1", "q1">>
    /\ DOMAIN Workloads = {<<"ns1", "w2">>, <<"ns2", "w3">>}
    /\ <<"B", "memory">> \in Cells(Usage)
    /\ Usage["B"]["memory"] = 3
    /\ localQueues[lastCall.key].usage["B"]["memory"] = 2

\* C11: addLocalQueue of a registered key returns the 'queue already exists'
\* error and leaves the LocalQueues, with the admitted count and ledger of
\* the registered one, and all the state of the queue as they were.
C11_DuplicateRegistrationChangesNothing ==
    [][(lastCall'.op = "addLocalQueue" /\ lastCall'.key \in DOMAIN localQueues) =>
          /\ lastCall'.err
          /\ UNCHANGED <<localQueues, cqVars, wlVars, podsReadyTracking, Cohort>>]_vars

\* A second registration was rejected while the registered LocalQueue had
\* an admitted workload and usage, and the ledger of the queue had since
\* gained a cell that the LocalQueue's ledger lacks.
C11_Witness ==
    /\ lastCall.op = "addLocalQueue" /\ lastCall.err
    /\ localQueues[lastCall.key].admittedWorkloads > 0
    /\ \E c \in Cells(localQueues[lastCall.key].usage) :
          localQueues[lastCall.key].usage[c[1]][c[2]] > 0
    /\ Cells(Usage) # Cells(localQueues[lastCall.key].usage)

\* The nominal quotas that the groups give to the cell of flavor f and resource r.
NominalsOf(f, r) ==
    UNION {{ResourceGroups[i].Flavors[j].Resources[r].Nominal :
                j \in {k \in 1..Len(ResourceGroups[i].Flavors) :
                          /\ ResourceGroups[i].Flavors[k].Name = f
                          /\ r \in DOMAIN ResourceGroups[i].Flavors[k].Resources}} :
            i \in 1..Len(ResourceGroups)}

\* C12: IsBorrowing is true exactly when the queue has a cohort and some cell
\* of the ledger holds more than the nominal quota of the cell; usage equal
\* to the nominal quota is not borrowing, and a queue without a cohort or
\* with an empty ledger never borrows.
C12_BorrowingIffOverNominal ==
    IsBorrowing <=>
        /\ Cohort # NoCohort
        /\ \E c \in Cells(Usage) : \E n \in NominalsOf(c[1], c[2]) : Usage[c[1]][c[2]] > n

\* A queue in a cohort holds 2 of memory on B against a nominal quota of 1
\* and borrows, while its cpu on A is below the nominal quota.
C12_Witness ==
    /\ IsBorrowing
    /\ Cohort # NoCohort
    /\ <<"B", "memory">> \in Cells(Usage) /\ Usage["B"]["memory"] = 2
    /\ NominalsOf("B", "memory") = {1}
    /\ Usage["A"]["cpu"] < 1000

\* A queue in a cohort holds exactly the nominal quota of memory on B and
\* does not borrow.
C12_WitnessAtNominal ==
    /\ ~IsBorrowing
    /\ Cohort # NoCohort
    /\ <<"B", "memory">> \in Cells(Usage) /\ Usage["B"]["memory"] = 1
    /\ NominalsOf("B", "memory") = {1}

\* Every step of the cohort specification other than Terminate is one event
\* applied to the queue.
StepsAreEvents ==
    [][lastCall'.op # "Terminate" =>
          \E e \in QuotaEvents \cup FlavorEvents \cup WorkloadEvents \cup LocalQueueEvents :
              /\ e.op = lastCall'.op
              /\ Current' = Apply(Current, e)]_vars

\* Two events leave the same queue in either order.
Commute(c, e1, e2) == Apply(Apply(c, e1), e2) = Apply(Apply(c, e2), e1)

C14_LocalQueueLedgersHaveQueueShape ==
    \A k \in DOMAIN localQueues : Cells(localQueues[k].usage) = Cells(Usage)

\* The cells that the flavor assignment of a workload names.
AssignedCells(wi) ==
    UNION {{<<wi.TotalRequests[i].Flavors[r], r>> : r \in DOMAIN wi.TotalRequests[i].Flavors} :
            i \in 1..Len(wi.TotalRequests)}

\* What addWorkload and deleteWorkload leave alone when they act on the info wi.
LedgerShapeKept(wi) ==
    /\ Cells(Usage') = Cells(Usage)
    /\ DOMAIN localQueues' = DOMAIN localQueues
    /\ \A q \in DOMAIN localQueues :
          /\ Cells(localQueues'[q].usage) = Cells(localQueues[q].usage)
          /\ \A c \in Cells(localQueues[q].usage) \ AssignedCells(wi) :
                localQueues'[q].usage[c[1]][c[2]] = localQueues[q].usage[c[1]][c[2]]
    /\ \A c \in Cells(Usage) \ AssignedCells(wi) : Usage'[c[1]][c[2]] = Usage[c[1]][c[2]]

\* C15: addWorkload and deleteWorkload never change the set of cells of the
\* ledger of the queue or of a LocalQueue; an admission that names a cell
\* missing from the ledger succeeds, the workload is tracked, the cell is not
\* created, and the cells that the flavor assignment does not name keep
\* their values.
C15_AdmitRemoveKeepLedgerShape ==
    [][lastCall'.op \in {"addWorkload", "deleteWorkload"} =>
          LET k == lastCall'.key
              wi == IF k \in DOMAIN Workloads THEN Workloads[k]
                    ELSE IF k \in DOMAIN Workloads' THEN Workloads'[k]
                    ELSE [TotalRequests |-> <<>>]
          IN /\ LedgerShapeKept(wi)
             /\ (lastCall'.op = "addWorkload" /\ k \notin DOMAIN Workloads) =>
                    /\ ~lastCall'.err
                    /\ k \in DOMAIN Workloads']_vars

\* ns1/w1, which asks for memory on flavor A, was admitted without error by
\* a queue whose ledger has flavor A without a memory cell, beside another
\* tracked workload and with its LocalQueue registered.
C15_Witness ==
    /\ lastCall.op = "addWorkload" /\ ~lastCall.err
    /\ lastCall.key = <<"ns1", "w1">>
    /\ lastCall.key \in DOMAIN Workloads
    /\ <<"A", "memory">> \in AssignedCells(Workloads[lastCall.key])
    /\ "A" \in DOMAIN Usage
    /\ <<"A", "memory">> \notin Cells(Usage)
    /\ Cardinality(DOMAIN Workloads) = 2
    /\ <<"ns1", "q1">> \in DOMAIN localQueues

\* The flavors that the FlavorQuotas of the groups of a spec name.
FlavorsNamedIn(in) ==
    UNION {{in.ResourceGroups[i].Flavors[j].Name : j \in 1..Len(in.ResourceGroups[i].Flavors)} :
            i \in 1..Len(in.ResourceGroups)}

\* C16: after a successful update flavorInUse is true exactly of the flavors
\* that the FlavorQuotas of the groups of the new spec name, whatever the
\* tracked workloads were admitted against, and no other operation changes
\* what flavorInUse returns.
C16_FlavorInUseFollowsGroups ==
    [][/\ lastCall'.op # "update" =>
            \A f \in Flavors : flavorInUse(f)' <=> flavorInUse(f)
       /\ (lastCall'.op = "update" /\ ~lastCall'.err) =>
            \A in \in LedgerClusterQueuesIn, fl \in LedgerFlavorRegistries :
                update(in, fl) =>
                    \A f \in Flavors : flavorInUse(f)' <=> f \in FlavorsNamedIn(in)]_vars

\* An update has removed flavor B from every group: flavorInUse is false of B
\* and true of A, while a workload admitted against B is tracked and a
\* LocalQueue registered before the update still has B's memory cell.
C16_Witness ==
    /\ lastCall.op = "update" /\ ~lastCall.err
    /\ ~flavorInUse("B")
    /\ flavorInUse("A")
    /\ \E k \in DOMAIN Workloads : <<"B", "memory">> \in AssignedCells(Workloads[k])
    /\ \E q \in DOMAIN localQueues :
          /\ <<"B", "memory">> \in Cells(localQueues[q].usage)
          /\ localQueues[q].usage["B"]["memory"] > 0

\* C17: deleteWorkload of an identity that is not tracked, and
\* deleteLocalQueue of a key that is not registered, return without an error
\* and leave Workloads, Usage, the not-ready set, the LocalQueues and every
\* other field of the queue as they were.
C17_RemovingTheAbsentChangesNothing ==
    [][(lastCall'.op \in {"deleteWorkload", "deleteLocalQueue"} /\ ~lastCall'.found) =>
          /\ ~lastCall'.err
          /\ UNCHANGED <<cqVars, wlVars, localQueues, podsReadyTracking, Cohort>>]_vars

\* An untracked workload was removed from a queue that tracks another
\* workload of the same LocalQueue, with usage in the ledgers of the queue
\* and of the registered LocalQueue.
C17_Witness ==
    /\ lastCall.op = "deleteWorkload" /\ ~lastCall.found
    /\ lastCall.key = <<"ns1", "w1">>
    /\ DOMAIN Workloads = {<<"ns1", "w2">>}
    /\ <<"ns1", "q1">> \in DOMAIN localQueues
    /\ localQueues[<<"ns1", "q1">>].admittedWorkloads = 1
    /\ Usage["A"]["cpu"] = 2
    /\ localQueues[<<"ns1", "q1">>].usage["A"]["cpu"] = 2

\* An unregistered LocalQueue was deregistered while another one was
\* registered.
C17_WitnessLocalQueue ==
    /\ lastCall.op = "deleteLocalQueue" /\ ~lastCall.found
    /\ lastCall.key = <<"ns2", "q2">>
    /\ DOMAIN localQueues = {<<"ns1", "q1">>}
    /\ localQueues[<<"ns1", "q1">>].admittedWorkloads > 0

\* C18: the admitted count of every registered LocalQueue is the number of
\* tracked workloads of its namespace and queue name, and is never negative.
C18_AdmittedCountIsTrackedCount ==
    \A k \in DOMAIN localQueues :
        /\ localQueues[k].admittedWorkloads = Cardinality(WorkloadsOf(k))
        /\ localQueues[k].admittedWorkloads >= 0

\* One of two workloads of a registered LocalQueue was removed after a
\* reconfiguration that changed the cells of the queue's ledger, and the
\* LocalQueue counts the one that is left.
C18_Witness ==
    /\ lastCall.op = "deleteWorkload" /\ lastCall.found
    /\ lastCall.key = <<"ns1", "w1">>
    /\ <<"ns1", "q1">> \in DOMAIN localQueues
    /\ localQueues[<<"ns1", "q1">>].admittedWorkloads = 1
    /\ WorkloadsOf(<<"ns1", "q1">>) = {<<"ns1", "w2">>}
    /\ Cells(localQueues[<<"ns1", "q1">>].usage) # Cells(Usage)

\* C19: no cell of the ledger of the queue or of a LocalQueue is negative.
C19_NoNegativeUsage ==
    /\ \A c \in Cells(Usage) : Usage[c[1]][c[2]] >= 0
    /\ \A k \in DOMAIN localQueues :
          \A c \in Cells(localQueues[k].usage) : localQueues[k].usage[c[1]][c[2]] >= 0

\* C20: every cell of the ledger of the queue holds at most the sum of what
\* the tracked workloads commit to the cell.
C20_UsageNeverOverCounts ==
    \A c \in Cells(Usage) :
        Usage[c[1]][c[2]] <=
            SumFn([k \in DOMAIN Workloads |-> Commitment(Workloads[k], c[1], c[2])])

\* After a reconfiguration the memory cell of B counts less than the two
\* tracked workloads commit to it, and the cpu cell of A counts all of it.
C20_Witness ==
    /\ lastCall.op = "update" /\ ~lastCall.err
    /\ DOMAIN Workloads = {<<"ns1", "w2">>, <<"ns2", "w3">>}
    /\ <<"B", "memory">> \in Cells(Usage)
    /\ Usage["B"]["memory"] = 0
    /\ Usage["A"]["cpu"] = 2

====
